---- MODULE Spec2Model ----
(***************************************************************************)
(* GCP -> S3/R2 migration script (gcp-r2-migration.ts, the full-diff       *)
(* variant, and its presence-check sibling).  One run of                   *)
(* findAndProcessRecentFolders is an orchestrator (pc) that scans the      *)
(* source bucket, classifies folders, and then, folder by folder, diffs    *)
(* against the destination and transfers through the p-limit pool.         *)
(* Object keys are strings, modelled as sequences of one-character strings *)
(* so that split('/') and prefix matching are computed, not assumed.       *)
(***************************************************************************)
EXTENDS Integers, Sequences, FiniteSets, TLC

VARIABLES
    variant,                \* "diff" (gcp-r2-migration.ts) or "presence" (sibling file)
    gcs,                    \* source bucket: objects [name, timeCreated], in listing order
    r2,                     \* destination bucket: set of keys
    flaky,                  \* keys whose download or upload may fail in this environment
    prior,                  \* how the previous run of the script went ("none": first run)
    r2AtStart,              \* the destination bucket as this run found it
    faulted,                \* whether a network call of this run has failed
    pc,                     \* orchestrator position
    error,                  \* what the top-level catch received ("none" before)
    pageToken,              \* scan continuation token (NoToken = undefined)
    recentFoldersFound,     \* Set<string>, kept in insertion order
    allFoldersFoundInTotal, \* Set<string>
    finalFolders,           \* Array.from(recentFoldersFound)
    folderIdx,              \* position of the for-of loop over finalFolders
    r2Files,                \* Set<string> of the DIFF step
    r2ContinuationToken,    \* NextContinuationToken of the last list response
    filesToMigrate,         \* keys to transfer for the current folder
    tasks,                  \* uploadPromises: one record per entry of filesToMigrate
    queue,                  \* p-limit's FIFO of task indices not yet started
    activeCount,            \* p-limit's count of running tasks
    transferredCount,
    migratedFoldersCount

vars == <<variant, gcs, r2, flaky, prior, r2AtStart, faulted, pc, error, pageToken, recentFoldersFound,
          allFoldersFoundInTotal, finalFolders, folderIdx, r2Files,
          r2ContinuationToken, filesToMigrate, tasks, queue, activeCount,
          transferredCount, migratedFoldersCount>>

(***************************************************************************)
(* Program constants.                                                      *)
(***************************************************************************)
\* GCP_INTERNAL_PATH: the scan root, "r/".
GCP_INTERNAL_PATH == <<"r", "/">>

\* FOLDER_DATE_CHECK_FILE: the marker leaf name, "m".
FOLDER_DATE_CHECK_FILE == <<"m">>

\* MINIMUM_DATE: instants are counted in days; the cutoff is day 2.
MINIMUM_DATE == 2

\* BATCH_SIZE: maxResults of a scan page.
BATCH_SIZE == 1000

\* pLimit(8)
Concurrency == 8

\* for (let i = 0; i < 3; i++)
MaxAttempts == 3

\* Largest number of keys one ListObjectsV2 response carries (the service's
\* page size, scaled down so that a small folder is already truncated).
MaxKeys == 2

NoToken == -1

\* The value of pathParts[i] for an index outside the array.
UNDEFINED == <<"?undefined">>

(***************************************************************************)
(* Strings.                                                                *)
(***************************************************************************)
Alphabet == <<"/", "a", "b", "c", "d", "e", "f", "g", "h", "i", "j", "k", "m",
              "n", "r", "u", "x", "z">>

CharRank(c) == CHOOSE i \in 1..Len(Alphabet) : Alphabet[i] = c

RECURSIVE KeyLess(_, _)
\* Lexicographic order of keys, the order both services list in.
KeyLess(a, b) ==
    IF b = <<>> THEN FALSE
    ELSE IF a = <<>> THEN TRUE
    ELSE IF Head(a) = Head(b) THEN KeyLess(Tail(a), Tail(b))
    ELSE CharRank(Head(a)) < CharRank(Head(b))

RECURSIVE SortKeys(_)
SortKeys(S) ==
    IF S = {} THEN <<>>
    ELSE LET least == CHOOSE k \in S : \A o \in S \ {k} : KeyLess(k, o)
         IN  <<least>> \o SortKeys(S \ {least})

startsWith(s, p) == Len(s) >= Len(p) /\ SubSeq(s, 1, Len(p)) = p

RECURSIVE SplitAcc(_, _, _)
SplitAcc(s, acc, cur) ==
    IF s = <<>> THEN Append(acc, cur)
    ELSE IF Head(s) = "/" THEN SplitAcc(Tail(s), Append(acc, cur), <<>>)
    ELSE SplitAcc(Tail(s), acc, Append(cur, Head(s)))

\* file.name.split('/')
split(s) == SplitAcc(s, <<>>, <<>>)

\* pathParts[i] with JavaScript's zero-based index i
At(pathParts, i) == IF i >= 0 /\ i < Len(pathParts) THEN pathParts[i + 1] ELSE UNDEFINED

\* JavaScript truthiness of a string-or-undefined value
Truthy(x) == x # UNDEFINED /\ x # <<>>

\* `${x}` of a string-or-undefined value
Template(x) == IF x = UNDEFINED THEN <<"u", "n", "d", "e", "f", "i", "n", "e", "d">> ELSE x

\* `${GCP_INTERNAL_PATH}${folderName}/`
FolderPrefix(folderName) == GCP_INTERNAL_PATH \o Template(folderName) \o <<"/">>

Range(s) == {s[i] : i \in 1..Len(s)}

Min(a, b) == IF a < b THEN a ELSE b

\* Set.add on an insertion-ordered set
SetAdd(s, x) == IF x \in Range(s) THEN s ELSE Append(s, x)

(***************************************************************************)
(* The two object stores.                                                  *)
(***************************************************************************)
Obj(name, t) == [name |-> name, timeCreated |-> t]

Key(folder, leaf) == GCP_INTERNAL_PATH \o folder \o <<"/">> \o leaf

\* gcpBucket.getFiles({prefix}) with automatic pagination: every object whose
\* name starts with the prefix, in listing order.
GetFiles(prefix) == SelectSeq(gcs, LAMBDA o : startsWith(o.name, prefix))

\* What the destination answers to ListObjectsV2(Prefix, MaxKeys,
\* ContinuationToken): the keys under the prefix that follow the token's
\* position, at most maxKeys of them, and a NextContinuationToken when keys
\* remain.  A token is the number of keys already returned.
ListObjectsV2(prefix, maxKeys, token) ==
    LET all  == SortKeys({k \in r2 : startsWith(k, prefix)})
        from == IF token = NoToken THEN 0 ELSE token
        upto == Min(Len(all), from + maxKeys)
    IN  [Contents |-> SubSeq(all, from + 1, upto),
         NextContinuationToken |-> IF upto < Len(all) THEN upto ELSE NoToken]

(***************************************************************************)
(* Folder Classifier (the body of the for-of loop over a page).            *)
(***************************************************************************)
FolderNameOf(name) == LET pathParts == split(name) IN At(pathParts, Len(pathParts) - 2)

FileNameOf(name) == LET pathParts == split(name) IN At(pathParts, Len(pathParts) - 1)

\* if (folderName && fileName) allFoldersFoundInTotal.add(folderName)
AddToAll(all, file) ==
    IF Truthy(FolderNameOf(file.name)) /\ Truthy(FileNameOf(file.name))
    THEN all \cup {FolderNameOf(file.name)}
    ELSE all

\* fileCreationDate >= MINIMUM_DATE
DateIsRecent(timeCreated) == timeCreated >= MINIMUM_DATE

\* if (fileName === FOLDER_DATE_CHECK_FILE) { if (date >= MINIMUM_DATE) add }
AddToRecent(recent, file) ==
    IF FileNameOf(file.name) = FOLDER_DATE_CHECK_FILE /\ DateIsRecent(file.timeCreated)
    THEN SetAdd(recent, FolderNameOf(file.name))
    ELSE recent

RECURSIVE ClassifyRecent(_, _)
ClassifyRecent(files, recent) ==
    IF files = <<>> THEN recent
    ELSE ClassifyRecent(Tail(files), AddToRecent(recent, Head(files)))

RECURSIVE ClassifyAll(_, _)
ClassifyAll(files, all) ==
    IF files = <<>> THEN all
    ELSE ClassifyAll(Tail(files), AddToAll(all, Head(files)))

(***************************************************************************)
(* Initial states: a fresh process in one of a few environments.           *)
(***************************************************************************)
\* Folder a: marker created exactly at the cutoff.  Folder b: an old marker
\* next to a newer plain object.  Folder c: a recent marker only.
SrcThreeFolders ==
    <<Obj(Key(<<"a">>, <<"m">>), 2), Obj(Key(<<"a">>, <<"x">>), 1),
      Obj(Key(<<"b">>, <<"m">>), 1), Obj(Key(<<"b">>, <<"x">>), 3),
      Obj(Key(<<"c">>, <<"m">>), 3)>>

\* A marker-named object directly under the scan root, after folder a.
SrcRootMarker ==
    <<Obj(Key(<<"a">>, <<"m">>), 3), Obj(GCP_INTERNAL_PATH \o <<"m">>, 3)>>

\* A marker two levels below the root, and an object outside the root.
SrcNested ==
    <<Obj(Key(<<"d", "/", "e">>, <<"m">>), 3), Obj(Key(<<"d", "/", "e">>, <<"x">>), 3),
      Obj(<<"x">>, 3)>>

\* One folder whose marker is older than the cutoff, holding a newer object.
SrcOldFolder ==
    <<Obj(Key(<<"b">>, <<"m">>), 1), Obj(Key(<<"b">>, <<"x">>), 3)>>

\* One recent folder with more objects than the limiter has slots.
SrcWideFolder ==
    [n \in 1..9 |->
        Obj(Key(<<"a">>, <<(<<"b", "c", "d", "e", "f", "g", "h", "i", "m">>)[n]>>), 3)]

DstEmpty == {}

\* Folder a partly there, plus a key with no source counterpart (whose leaf
\* name is the marker's).
DstPartial == {Key(<<"a">>, <<"x">>), Key(<<"a", "/", "z">>, <<"m">>)}

\* Folder a complete, plus keys with no source counterpart: more keys under
\* the folder prefix than one list response carries.
DstLarge ==
    {Key(<<"a">>, <<"m">>), Key(<<"a">>, <<"x">>), Key(<<"a">>, <<"k">>),
     Key(<<"a">>, <<"z">>)}

Names(objs) == {objs[i].name : i \in 1..Len(objs)}

Worlds ==
    {[gcs |-> SrcThreeFolders, r2 |-> d, flaky |-> Names(SrcThreeFolders)] :
        d \in {DstEmpty, DstPartial, DstLarge}}
    \cup {[gcs |-> SrcRootMarker, r2 |-> DstEmpty, flaky |-> Names(SrcRootMarker)],
          [gcs |-> SrcNested, r2 |-> DstEmpty, flaky |-> {}],
          [gcs |-> SrcOldFolder, r2 |-> DstEmpty, flaky |-> {}]}

\* The environments above, and one whose folder overfills the limiter.
PoolWorlds ==
    Worlds \cup {[gcs |-> SrcWideFolder, r2 |-> DstEmpty,
                  flaky |-> {Key(<<"a">>, <<"b">>)}]}

\* The state of a process that has just entered findAndProcessRecentFolders.
Fresh ==
    /\ pc = "scan"
    /\ faulted = FALSE
    /\ error = "none"
    /\ pageToken = NoToken
    /\ recentFoldersFound = <<>>
    /\ allFoldersFoundInTotal = {}
    /\ finalFolders = <<>>
    /\ folderIdx = 0
    /\ r2Files = {}
    /\ r2ContinuationToken = NoToken
    /\ filesToMigrate = <<>>
    /\ tasks = <<>>
    /\ queue = <<>>
    /\ activeCount = 0
    /\ transferredCount = 0
    /\ migratedFoldersCount = 0

InitIn(worlds) ==
    /\ \E w \in worlds :
          /\ gcs = w.gcs
          /\ r2 = w.r2
          /\ r2AtStart = w.r2
          /\ flaky = w.flaky
    /\ variant \in {"diff", "presence"}
    /\ prior = "none"
    /\ Fresh

Init == InitIn(Worlds)

InitPool == InitIn(PoolWorlds)

envVars == <<variant, gcs, flaky, prior, r2AtStart>>
scanVars == <<pageToken, recentFoldersFound, allFoldersFoundInTotal>>
poolVars == <<tasks, queue, activeCount, transferredCount>>

(***************************************************************************)
(* Step 1: the scan.                                                       *)
(***************************************************************************)
\* EnterFolder as a loop that, out of folders, goes back to scanning.
EnterFolderOrRescan(idx, folders) ==
    /\ folderIdx' = idx
    /\ r2Files' = {}
    /\ r2ContinuationToken' = NoToken
    /\ pc' = IF idx > Len(folders) THEN "scan"
             ELSE IF variant = "diff" THEN "r2_send" ELSE "b_check"

\* The head of the for-of loop over finalFolders, entered for position idx.
EnterFolder(idx, folders) ==
    /\ folderIdx' = idx
    /\ r2Files' = {}
    /\ r2ContinuationToken' = NoToken
    /\ pc' = IF idx > Len(folders) THEN "done"
             ELSE IF variant = "diff" THEN "r2_send" ELSE "b_check"

\* The numbers of files a page may hold when `left` files remain to list:
\* at most maxResults, possibly fewer, and possibly none on a page that
\* follows another one.
PageSizes(left, token) ==
    {n \in 0..Min(BATCH_SIZE, left) : n > 0 \/ left = 0 \/ token # NoToken}

\* One iteration of the do-while: a page of n files arrives, with a
\* nextPageToken when files remain.
ScanPage ==
    /\ pc = "scan"
    /\ LET listing == GetFiles(GCP_INTERNAL_PATH)
           pos     == IF pageToken = NoToken THEN 0 ELSE pageToken
       IN  \E n \in PageSizes(Len(listing) - pos, pageToken) :
             LET files         == SubSeq(listing, pos + 1, pos + n)
                 nextPageToken == IF pos + n < Len(listing) THEN pos + n ELSE NoToken
             IN  IF Len(files) = 0
                 THEN \* break
                      /\ UNCHANGED scanVars
                      /\ finalFolders' = recentFoldersFound
                      /\ EnterFolder(1, recentFoldersFound)
                 ELSE /\ recentFoldersFound' = ClassifyRecent(files, recentFoldersFound)
                      /\ allFoldersFoundInTotal' = ClassifyAll(files, allFoldersFoundInTotal)
                      /\ pageToken' = nextPageToken
                      /\ IF nextPageToken # NoToken
                         THEN /\ pc' = "scan"
                              /\ UNCHANGED <<finalFolders, folderIdx, r2Files,
                                             r2ContinuationToken>>
                         ELSE /\ finalFolders' = recentFoldersFound'
                              /\ EnterFolder(1, recentFoldersFound')
    /\ UNCHANGED <<faulted, envVars, r2, error, filesToMigrate, poolVars, migratedFoldersCount>>

\* Catch as a handler that records the error and lets the loop go on.
CatchAndGoOn(e) ==
    /\ pc' = pc
    /\ error' = e

\* A listing call rejects: the top-level catch takes over.
Catch(e) ==
    /\ pc' = "failed"
    /\ error' = e

ScanFail ==
    /\ pc = "scan"
    /\ Catch("ListError")
    /\ faulted' = TRUE
    /\ UNCHANGED <<envVars, r2, scanVars, finalFolders, folderIdx, r2Files,
                   r2ContinuationToken, filesToMigrate, poolVars, migratedFoldersCount>>

(***************************************************************************)
(* Step 2, full-diff variant: DIFF.                                        *)
(***************************************************************************)
folderName == finalFolders[folderIdx]

\* The ContinuationToken the listing request carries: listParams holds
\* Bucket and Prefix only, so none, whatever the last response said.
ListParamsToken(lastToken) == NoToken

\* const listResponse = await s3.send(listCommand): the request leaves.
R2Send ==
    /\ pc = "r2_send"
    /\ pc' = "r2_recv"
    /\ UNCHANGED <<faulted, envVars, r2, error, scanVars, finalFolders, folderIdx, r2Files,
                   r2ContinuationToken, filesToMigrate, poolVars, migratedFoldersCount>>

\* The response arrives: its keys go into r2Files, and the do-while repeats
\* while the response carries a NextContinuationToken.
R2Recv ==
    /\ pc = "r2_recv"
    /\ LET listResponse == ListObjectsV2(FolderPrefix(folderName), MaxKeys,
                                         ListParamsToken(r2ContinuationToken))
       IN  /\ r2Files' = r2Files \cup Range(listResponse.Contents)
           /\ r2ContinuationToken' = listResponse.NextContinuationToken
           /\ pc' = IF listResponse.NextContinuationToken # NoToken
                    THEN "r2_send" ELSE "gcp_list"
    /\ UNCHANGED <<faulted, envVars, r2, error, scanVars, finalFolders, folderIdx,
                   filesToMigrate, poolVars, migratedFoldersCount>>

R2Fail ==
    /\ pc = "r2_recv"
    /\ Catch("ListError")
    /\ faulted' = TRUE
    /\ UNCHANGED <<envVars, r2, scanVars, finalFolders, folderIdx, r2Files,
                   r2ContinuationToken, filesToMigrate, poolVars, migratedFoldersCount>>

\* FilterMissing with the filter comparing leaf names, not full keys.
FilterMissingByLeaf(gcpFiles, existing) ==
    LET keys == [i \in 1..Len(gcpFiles) |-> gcpFiles[i].name]
    IN  SelectSeq(keys, LAMBDA k : FileNameOf(k) \notin {FileNameOf(e) : e \in existing})

\* FilterMissing without the filter: every source key of the folder.
FilterMissingNothing(gcpFiles, existing) ==
    [i \in 1..Len(gcpFiles) |-> gcpFiles[i].name]

\* gcpFiles.filter(file => !r2Files.has(file.name)), as keys
FilterMissing(gcpFiles, existing) ==
    LET keys == [i \in 1..Len(gcpFiles) |-> gcpFiles[i].name]
    IN  SelectSeq(keys, LAMBDA k : k \notin existing)

\* Lines 172-179: the folder's source listing and the filter.
GcpList ==
    /\ pc = "gcp_list"
    /\ filesToMigrate' = FilterMissing(GetFiles(FolderPrefix(folderName)), r2Files)
    /\ pc' = "diffed"
    /\ UNCHANGED <<faulted, envVars, r2, error, scanVars, finalFolders, folderIdx, r2Files,
                   r2ContinuationToken, poolVars, migratedFoldersCount>>

GcpListFail ==
    /\ pc \in {"gcp_list", "b_list"}
    /\ Catch("ListError")
    /\ faulted' = TRUE
    /\ UNCHANGED <<envVars, r2, scanVars, finalFolders, folderIdx, r2Files,
                   r2ContinuationToken, filesToMigrate, poolVars, migratedFoldersCount>>

\* if (filesToMigrate.length === 0) { migratedFoldersCount++; continue; }
FolderSynced ==
    /\ pc = "diffed"
    /\ Len(filesToMigrate) = 0
    /\ migratedFoldersCount' = migratedFoldersCount + 1
    /\ EnterFolder(folderIdx + 1, finalFolders)
    /\ UNCHANGED <<faulted, envVars, r2, error, scanVars, finalFolders, filesToMigrate, poolVars>>

(***************************************************************************)
(* Step 2, full-diff variant: TRANSFER through the limiter.                *)
(***************************************************************************)
\* A task whose s3Key is the leaf name of the file, not its full name.
NewTaskLeafKey(key) ==
    [key |-> FileNameOf(key), st |-> "queued", i |-> 0, downloadSuccess |-> FALSE,
     buf |-> "none", downloads |-> 0, uploads |-> 0, skips |-> 0]

\* A task as limit() receives it: not started, nothing called yet.
NewTask(key) ==
    [key |-> key, st |-> "queued", i |-> 0, downloadSuccess |-> FALSE,
     buf |-> "none", downloads |-> 0, uploads |-> 0, skips |-> 0]

\* HasSlot of a pool that starts every task at once.
HasSlotAlways(active) == TRUE

\* Whether the limiter may start one more task.
HasSlot(active) == active < Concurrency

RECURSIVE Drain(_, _, _)
\* p-limit starts queued tasks, oldest first, while a slot is free.  The
\* async function runs to its first await, the download.
Drain(ts, q, active) ==
    IF q # <<>> /\ HasSlot(active)
    THEN Drain([ts EXCEPT ![Head(q)].st = "downloading"], Tail(q), active + 1)
    ELSE [tasks |-> ts, queue |-> q, activeCount |-> active]

\* filesToMigrate.map(file => limit(async () => ...)); the orchestrator then
\* waits in Promise.all.
Submit ==
    /\ pc = "diffed"
    /\ Len(filesToMigrate) > 0
    /\ LET n  == Len(filesToMigrate)
           ts == [t \in 1..n |-> NewTask(filesToMigrate[t])]
           d  == Drain(ts, [t \in 1..n |-> t], activeCount)
       IN  /\ tasks' = d.tasks
           /\ queue' = d.queue
           /\ activeCount' = d.activeCount
    /\ transferredCount' = 0
    /\ pc' = "await_all"
    /\ UNCHANGED <<faulted, envVars, r2, error, scanVars, finalFolders, folderIdx, r2Files,
                   r2ContinuationToken, filesToMigrate, migratedFoldersCount>>

Terminal == {"uploaded", "skipped", "failed"}

\* The task's promise settles: p-limit frees the slot and starts the next
\* queued task.
Settle(ts) ==
    LET d == Drain(ts, queue, activeCount - 1)
    IN  /\ tasks' = d.tasks
        /\ queue' = d.queue
        /\ activeCount' = d.activeCount

\* The buffers a successful download may deliver for a key.
Buffers(key) == IF key \in flaky THEN {"data", "empty"} ELSE {"data"}

\* What file.download() may resolve to: a buffer, or null.
Delivered(key) == Buffers(key) \cup (IF key \in flaky THEN {"null"} ELSE {})

\* The integrity check without its throw: whatever arrived is a success.
BufferOkAlways(fileBuffer) == TRUE

\* if (!fileBuffer) throw ...: null is falsy, a Buffer of any length is not.
BufferOk(fileBuffer) == fileBuffer # "null"

\* [fileBuffer] = await file.download() delivers a buffer: the retry loop is
\* left and PutObject is sent.
DownloadOk ==
  \E t \in DOMAIN tasks :
    /\ variant = "diff"
    /\ tasks[t].st = "downloading"
    /\ \E b \in Delivered(tasks[t].key) :
          /\ BufferOk(b)
          /\ tasks' = [tasks EXCEPT ![t].buf = b,
                                    ![t].downloadSuccess = TRUE,
                                    ![t].downloads = @ + 1,
                                    ![t].uploads = @ + 1,
                                    ![t].st = "uploading"]
    /\ UNCHANGED <<faulted, envVars, r2, pc, error, scanVars, finalFolders, folderIdx, r2Files,
                   r2ContinuationToken, filesToMigrate, queue, activeCount,
                   transferredCount, migratedFoldersCount>>

\* The download throws, or delivers null and the integrity check throws:
\* the catch logs and starts the one-second wait.
DownloadFail ==
  \E t \in DOMAIN tasks :
    /\ variant = "diff"
    /\ tasks[t].st = "downloading"
    /\ tasks[t].key \in flaky
    /\ \/ \* download() rejects: fileBuffer keeps what it held
          tasks' = [tasks EXCEPT ![t].downloads = @ + 1, ![t].st = "waiting"]
       \/ \* download() resolves, and the check on fileBuffer throws
          \E b \in Delivered(tasks[t].key) :
             /\ ~BufferOk(b)
             /\ tasks' = [tasks EXCEPT ![t].buf = b,
                                       ![t].downloads = @ + 1,
                                       ![t].st = "waiting"]
    /\ faulted' = TRUE
    /\ UNCHANGED <<envVars, r2, pc, error, scanVars, finalFolders, folderIdx, r2Files,
                   r2ContinuationToken, filesToMigrate, queue, activeCount,
                   transferredCount, migratedFoldersCount>>

\* Skipped without the return: the task goes on to PutObject.
SkippedButUploads(task) == [task EXCEPT !.skips = @ + 1, !.uploads = @ + 1, !.st = "skipped"]

\* if (!downloadSuccess) { console.error(... Skipping ...); return; }
Skipped(task) == [task EXCEPT !.skips = @ + 1, !.st = "skipped"]

\* TryAgain with the loop bound off by one.
TryAgainOnceMore(i) == i <= MaxAttempts

\* Whether the for loop runs another attempt.
TryAgain(i) == i < MaxAttempts

\* The wait ends, i++: another attempt, or the loop ends with
\* downloadSuccess false, the skip is logged and the task returns.
RetryTimer ==
  \E t \in DOMAIN tasks :
    /\ tasks[t].st = "waiting"
    /\ IF TryAgain(tasks[t].i + 1)
       THEN /\ tasks' = [tasks EXCEPT ![t].i = @ + 1, ![t].st = "downloading"]
            /\ UNCHANGED <<queue, activeCount>>
       ELSE Settle([tasks EXCEPT ![t] = Skipped([@ EXCEPT !.i = @ + 1])])
    /\ UNCHANGED <<faulted, envVars, r2, pc, error, scanVars, finalFolders, folderIdx, r2Files,
                   r2ContinuationToken, filesToMigrate, transferredCount,
                   migratedFoldersCount>>

\* An increment written back from a value read before the await: the update
\* of a task that finished in between is lost.
PlusPlusStale(counter) == IF counter > 0 THEN counter ELSE counter + 1

\* transferredCount++: read and write in one synchronous statement.
PlusPlus(counter) == counter + 1

\* PutObject succeeds: transferredCount++ and the task returns.
UploadOk ==
  \E t \in DOMAIN tasks :
    /\ variant = "diff"
    /\ tasks[t].st = "uploading"
    /\ r2' = r2 \cup {tasks[t].key}
    /\ transferredCount' = PlusPlus(transferredCount)
    /\ Settle([tasks EXCEPT ![t].st = "uploaded"])
    /\ UNCHANGED <<faulted, envVars, pc, error, scanVars, finalFolders, folderIdx, r2Files,
                   r2ContinuationToken, filesToMigrate, migratedFoldersCount>>

\* OnReject of a loop that swallows the rejection and takes the next folder.
OnRejectContinue(at) == IF at = "await_all" THEN "r2_send" ELSE at

\* What a rejected task does to the orchestrator waiting in Promise.all:
\* Promise.all rejects at once and the top-level catch runs.
OnReject(at) == IF at = "await_all" THEN "failed" ELSE at

\* PutObject rejects: nothing in the task catches it, so the task's promise
\* rejects.
UploadFail ==
  \E t \in DOMAIN tasks :
    /\ variant = "diff"
    /\ tasks[t].st = "uploading"
    /\ tasks[t].key \in flaky
    /\ Settle([tasks EXCEPT ![t].st = "failed"])
    /\ pc' = OnReject(pc)
    /\ error' = IF pc = "await_all" THEN "UploadError" ELSE error
    /\ faulted' = TRUE
    /\ UNCHANGED <<envVars, r2, scanVars, finalFolders, folderIdx, r2Files,
                   r2ContinuationToken, filesToMigrate, transferredCount,
                   migratedFoldersCount>>

\* await Promise.all(uploadPromises) resolves: every promise has resolved.
AwaitAll ==
    /\ pc = "await_all"
    /\ \A t \in DOMAIN tasks : tasks[t].st \in {"uploaded", "skipped"}
    /\ migratedFoldersCount' = migratedFoldersCount + 1
    /\ EnterFolder(folderIdx + 1, finalFolders)
    /\ UNCHANGED <<faulted, envVars, r2, error, scanVars, finalFolders, filesToMigrate, poolVars>>

(***************************************************************************)
(* Step 2, presence-check variant: one folder-level check, then the files  *)
(* one after the other, every call awaited in the orchestrator itself.     *)
(***************************************************************************)
\* The presence check reversed: a folder is skipped when nothing is there.
FolderPresentInverted(listResponse) == Len(listResponse.Contents) = 0

\* The presence check switched off: no folder is ever skipped.
FolderPresentNever(listResponse) == FALSE

\* listResponse.Contents && listResponse.Contents.length > 0
FolderPresent(listResponse) == Len(listResponse.Contents) > 0

\* ListObjectsV2 with MaxKeys: 1; a non-empty answer skips the folder.
BCheck ==
    /\ variant = "presence"
    /\ pc = "b_check"
    /\ LET listResponse == ListObjectsV2(FolderPrefix(folderName), 1, NoToken)
       IN  IF FolderPresent(listResponse)
           THEN /\ migratedFoldersCount' = migratedFoldersCount + 1
                /\ EnterFolder(folderIdx + 1, finalFolders)
           ELSE /\ pc' = "b_list"
                /\ UNCHANGED <<migratedFoldersCount, folderIdx, r2Files,
                               r2ContinuationToken>>
    /\ UNCHANGED <<faulted, envVars, r2, error, scanVars, finalFolders, filesToMigrate, poolVars>>

BCheckFail ==
    /\ pc = "b_check"
    /\ Catch("ListError")
    /\ faulted' = TRUE
    /\ UNCHANGED <<envVars, r2, scanVars, finalFolders, folderIdx, r2Files,
                   r2ContinuationToken, filesToMigrate, poolVars, migratedFoldersCount>>

\* The folder's source listing; an empty folder counts as migrated, else the
\* for-of loop over gcpFiles starts with the first download.
BList ==
    /\ pc = "b_list"
    /\ LET gcpFiles == GetFiles(FolderPrefix(folderName))
           n        == Len(gcpFiles)
       IN  IF n = 0
           THEN /\ migratedFoldersCount' = migratedFoldersCount + 1
                /\ EnterFolder(folderIdx + 1, finalFolders)
                /\ UNCHANGED <<filesToMigrate, tasks, transferredCount>>
           ELSE /\ filesToMigrate' = [t \in 1..n |-> gcpFiles[t].name]
                /\ tasks' = [t \in 1..n |->
                                [NewTask(gcpFiles[t].name) EXCEPT
                                    !.st = IF t = 1 THEN "downloading" ELSE "pending"]]
                /\ transferredCount' = 0
                /\ pc' = "b_loop"
                /\ UNCHANGED <<migratedFoldersCount, folderIdx, r2Files,
                               r2ContinuationToken>>
    /\ UNCHANGED <<faulted, envVars, r2, error, scanVars, finalFolders, queue, activeCount>>

\* const fileBuffer = await file.download(), then PutObject is sent with
\* fileBuffer[0], whatever it is.
BDownloadOk ==
  \E t \in DOMAIN tasks :
    /\ variant = "presence"
    /\ pc = "b_loop"
    /\ tasks[t].st = "downloading"
    /\ \E b \in Delivered(tasks[t].key) :
          tasks' = [tasks EXCEPT ![t].buf = b,
                                 ![t].downloadSuccess = TRUE,
                                 ![t].downloads = @ + 1,
                                 ![t].uploads = @ + 1,
                                 ![t].st = "uploading"]
    /\ UNCHANGED <<faulted, envVars, r2, pc, error, scanVars, finalFolders, folderIdx, r2Files,
                   r2ContinuationToken, filesToMigrate, queue, activeCount,
                   transferredCount, migratedFoldersCount>>

\* The download throws inside the for-of loop: nothing but the top-level
\* catch handles it.
BDownloadFail ==
  \E t \in DOMAIN tasks :
    /\ variant = "presence"
    /\ pc = "b_loop"
    /\ tasks[t].st = "downloading"
    /\ tasks[t].key \in flaky
    /\ tasks' = [tasks EXCEPT ![t].downloads = @ + 1, ![t].st = "failed"]
    /\ Catch("DownloadError")
    /\ faulted' = TRUE
    /\ UNCHANGED <<envVars, r2, scanVars, finalFolders, folderIdx, r2Files,
                   r2ContinuationToken, filesToMigrate, queue, activeCount,
                   transferredCount, migratedFoldersCount>>

\* PutObject succeeds: transferredCount++, and the loop takes the next file
\* or the folder is complete.
BUploadOk ==
  \E t \in DOMAIN tasks :
    /\ variant = "presence"
    /\ pc = "b_loop"
    /\ tasks[t].st = "uploading"
    /\ r2' = r2 \cup {tasks[t].key}
    /\ transferredCount' = PlusPlus(transferredCount)
    /\ IF t < Len(tasks)
       THEN /\ tasks' = [tasks EXCEPT ![t].st = "uploaded", ![t + 1].st = "downloading"]
            /\ UNCHANGED <<pc, migratedFoldersCount, folderIdx, r2Files,
                           r2ContinuationToken>>
       ELSE /\ tasks' = [tasks EXCEPT ![t].st = "uploaded"]
            /\ migratedFoldersCount' = migratedFoldersCount + 1
            /\ EnterFolder(folderIdx + 1, finalFolders)
    /\ UNCHANGED <<faulted, envVars, error, scanVars, finalFolders, filesToMigrate, queue,
                   activeCount>>

BUploadFail ==
  \E t \in DOMAIN tasks :
    /\ variant = "presence"
    /\ pc = "b_loop"
    /\ tasks[t].st = "uploading"
    /\ tasks[t].key \in flaky
    /\ tasks' = [tasks EXCEPT ![t].st = "failed"]
    /\ Catch("UploadError")
    /\ faulted' = TRUE
    /\ UNCHANGED <<envVars, r2, scanVars, finalFolders, folderIdx, r2Files,
                   r2ContinuationToken, filesToMigrate, queue, activeCount,
                   transferredCount, migratedFoldersCount>>

(***************************************************************************)
(* The process ends (by itself or killed) and the script is run again.     *)
(***************************************************************************)
Restart ==
    /\ pc # "scan" \/ pageToken # NoToken
    /\ prior' = IF pc = "done" /\ ~faulted THEN "clean" ELSE "stopped"
    /\ r2AtStart' = r2
    /\ faulted' = FALSE
    /\ pc' = "scan"
    /\ error' = "none"
    /\ pageToken' = NoToken
    /\ recentFoldersFound' = <<>>
    /\ allFoldersFoundInTotal' = {}
    /\ finalFolders' = <<>>
    /\ folderIdx' = 0
    /\ r2Files' = {}
    /\ r2ContinuationToken' = NoToken
    /\ filesToMigrate' = <<>>
    /\ tasks' = <<>>
    /\ queue' = <<>>
    /\ activeCount' = 0
    /\ transferredCount' = 0
    /\ migratedFoldersCount' = 0
    /\ UNCHANGED <<variant, gcs, flaky, r2>>

NextRun ==
    \/ ScanPage
    \/ ScanFail
    \/ R2Send
    \/ R2Recv
    \/ R2Fail
    \/ GcpList
    \/ GcpListFail
    \/ FolderSynced
    \/ Submit
    \/ DownloadOk
    \/ DownloadFail
    \/ RetryTimer
    \/ UploadOk
    \/ UploadFail
    \/ AwaitAll
    \/ BCheck
    \/ BCheckFail
    \/ BList
    \/ BDownloadOk
    \/ BDownloadFail
    \/ BUploadOk
    \/ BUploadFail

Next == NextRun \/ Restart

\* Runs and re-runs of the script in the small environments.
Spec == Init /\ [][Next]_vars

\* The event loop runs whatever continuation is ready, and every network
\* call and timer this script awaits is eventually answered.
FairSpec == Spec /\ WF_vars(NextRun)

\* Single runs, the environment with the wide folder included.
SpecPool == InitPool /\ [][NextRun]_vars

(***************************************************************************)
(* Vocabulary of the properties.                                           *)
(***************************************************************************)
InFlightStates == {"downloading", "waiting", "uploading"}

\* Tasks that have not reached a terminal state (queued ones included).
Unfinished == {t \in DOMAIN tasks : tasks[t].st \notin Terminal}

InFlight == {t \in DOMAIN tasks : tasks[t].st \in InFlightStates}

\* Positions at which the orchestrator works on the calls of a folder
\* before that folder's transfer.
FolderCallPositions == {"r2_send", "r2_recv", "gcp_list", "diffed", "b_check", "b_list"}

SourceKeysUnder(prefix) == {gcs[i].name : i \in {j \in 1..Len(gcs) : startsWith(gcs[j].name, prefix)}}

DestKeysUnder(prefix) == {k \in r2 : startsWith(k, prefix)}

\* The scan is over and finalFolders is set.
ScanOver == folderIdx >= 1

\* The path segments of a key beyond the scan root.
BeyondRoot(name) == split(SubSeq(name, Len(GCP_INTERNAL_PATH) + 1, Len(name)))

\* The source objects the scan lists that have a folder: at least two path
\* segments beyond the scan root.
Foldered ==
    {gcs[i] : i \in {j \in 1..Len(gcs) :
        /\ startsWith(gcs[j].name, GCP_INTERNAL_PATH)
        /\ Len(BeyondRoot(gcs[j].name)) >= 2}}

FolderOf(o) == LET parts == BeyondRoot(o.name) IN parts[Len(parts) - 1]

LeafOf(o) == LET parts == BeyondRoot(o.name) IN parts[Len(parts)]

(***************************************************************************)
(* C1.  Full-diff variant: a failed upload of one object does not abort    *)
(* the folder or the run: while a task has failed in PutObject the         *)
(* orchestrator is never in the top-level error handler, and the handler   *)
(* never receives an upload error.                                         *)
(***************************************************************************)
C1_FailedUploadDoesNotAbort ==
    variant = "diff" =>
        /\ error # "UploadError"
        /\ \A t \in DOMAIN tasks : tasks[t].st = "failed" => pc # "failed"

(***************************************************************************)
(* C2.  Full-diff variant: the orchestrator is past the folder's           *)
(* collective await (next folder, error handler, end of run) only when     *)
(* every submitted task is terminal.                                       *)
(***************************************************************************)
C2_NoTaskOutlivesAwait ==
    (variant = "diff" /\ pc # "await_all") => Unfinished = {}

(***************************************************************************)
(* C3.  Full-diff variant: the destination listing loop terminates for     *)
(* every destination content, a truncated listing included, and on exit    *)
(* r2Files is the set of all destination keys under the folder prefix.     *)
(***************************************************************************)
C3_ListingLoopTerminatesComplete ==
    /\ [](pc = "gcp_list" => r2Files = DestKeysUnder(FolderPrefix(folderName)))
    /\ [](pc = "r2_send" => <>(pc \notin {"r2_send", "r2_recv"}))

(***************************************************************************)
(* C4.  Full-diff variant: a task whose three downloads all fail issues no *)
(* upload call and is skipped exactly once; the skip resolves the task, so *)
(* the step that skips it leaves the orchestrator and every other running  *)
(* task as they are, the error handler never receives a download error,    *)
(* and a folder whose tasks are all uploaded or skipped lets the           *)
(* orchestrator go on to the remaining folders.                            *)
(***************************************************************************)
C4_SkipIsIsolated ==
    /\ [](variant = "diff" =>
            /\ error # "DownloadError"
            /\ \A t \in DOMAIN tasks :
                  tasks[t].st = "skipped" =>
                      /\ tasks[t].uploads = 0
                      /\ tasks[t].skips = 1
                      /\ tasks[t].downloads = 3
            /\ (pc = "await_all" /\ \A t \in DOMAIN tasks :
                                        tasks[t].st \in {"uploaded", "skipped"})
                  => ENABLED AwaitAll)
    /\ [][\A t \in DOMAIN tasks :
            (variant = "diff" /\ tasks[t].st = "waiting"
                /\ t \in DOMAIN tasks' /\ tasks'[t].st = "skipped")
            => /\ pc' = pc
               /\ error' = error
               /\ \A u \in DOMAIN tasks \ {t} :
                     \/ tasks'[u] = tasks[u]
                     \/ tasks[u].st = "queued" /\ tasks'[u].st = "downloading"]_vars

\* A folder with a skipped task is complete and the next folder is entered.
C4_Witness ==
    /\ variant = "diff"
    /\ pc = "r2_send"
    /\ folderIdx = 2
    /\ \E t \in DOMAIN tasks : tasks[t].st = "skipped"
    /\ \E t \in DOMAIN tasks : tasks[t].st = "uploaded"

(***************************************************************************)
(* C5.  Full-diff variant: a task makes at most 3 download attempts and    *)
(* none after a success; PutObject is called at most once, only after a    *)
(* successful download, and exactly once (with no skip) for a task that    *)
(* ended after a successful download.                                      *)
(***************************************************************************)
C5_BoundedRetryThenOneUpload ==
    variant = "diff" =>
        \A t \in DOMAIN tasks :
            /\ tasks[t].downloads <= 3
            /\ tasks[t].downloadSuccess => tasks[t].st \in {"uploading", "uploaded", "failed"}
            /\ tasks[t].uploads <= 1
            /\ tasks[t].uploads = 1 => tasks[t].downloadSuccess
            /\ (tasks[t].downloadSuccess /\ tasks[t].st \in Terminal)
                  => tasks[t].uploads = 1 /\ tasks[t].skips = 0
            /\ tasks[t].st \in {"uploaded", "failed"} => tasks[t].downloadSuccess

\* Fail, fail, succeed: three downloads, one upload, no skip.
C5_Witness ==
    /\ variant = "diff"
    /\ \E t \in DOMAIN tasks :
          /\ tasks[t].downloads = 3
          /\ tasks[t].st = "uploaded"
          /\ tasks[t].uploads = 1
          /\ tasks[t].skips = 0

(***************************************************************************)
(* C6.  Full-diff variant: at most 8 tasks are downloading, waiting to     *)
(* retry or uploading at any instant.                                      *)
(***************************************************************************)
C6_AtMostEightInFlight ==
    variant = "diff" => Cardinality(InFlight) <= 8

\* Eight tasks in flight while a ninth waits in the limiter's queue.
C6_Witness ==
    /\ variant = "diff"
    /\ Cardinality(InFlight) = 8
    /\ queue # <<>>

(***************************************************************************)
(* C7.  Folders are processed one at a time: whenever the orchestrator is  *)
(* at a listing or diff of a folder, or about to submit its transfers, no  *)
(* task of an earlier folder is unfinished.                                *)
(***************************************************************************)
C7_OneFolderAtATime ==
    pc \in FolderCallPositions => Unfinished = {}

\* The second folder is entered after the first folder's transfers ended.
C7_Witness ==
    /\ pc \in FolderCallPositions
    /\ folderIdx = 2
    /\ tasks # <<>>

(***************************************************************************)
(* C8.  Full-diff variant: the task list filesToMigrate, when computed, is *)
(* exactly the source keys under the folder prefix minus the destination   *)
(* keys under it, each once; being a function of the two key sets alone,   *)
(* it is the same whenever it is recomputed with no transfer in between.   *)
(***************************************************************************)
C8_DiffIsSourceMinusDest ==
    pc = "diffed" =>
        /\ Range(filesToMigrate) =
              SourceKeysUnder(FolderPrefix(folderName)) \ DestKeysUnder(FolderPrefix(folderName))
        /\ Cardinality(Range(filesToMigrate)) = Len(filesToMigrate)

\* A re-run diffs a folder whose destination holds one of its keys and a
\* foreign key: part of the folder is still to migrate.
C8_Witness ==
    /\ pc = "diffed"
    /\ prior # "none"
    /\ filesToMigrate # <<>>
    /\ Len(filesToMigrate) < Cardinality(SourceKeysUnder(FolderPrefix(folderName)))
    /\ DestKeysUnder(FolderPrefix(folderName)) \ SourceKeysUnder(FolderPrefix(folderName)) # {}

(***************************************************************************)
(* C9.  When the scan has finished, recentFoldersFound is exactly the set  *)
(* of folders that contain an object whose leaf name is the marker and     *)
(* whose creation time is at or after the cutoff.                          *)
(***************************************************************************)
C9_RecentIsExactlyMarkedFolders ==
    ScanOver =>
        Range(recentFoldersFound) =
            {FolderOf(o) : o \in {f \in Foldered :
                LeafOf(f) = FOLDER_DATE_CHECK_FILE /\ f.timeCreated >= 2}}

(***************************************************************************)
(* C10.  An object without a folder adds nothing to the recent-folder set  *)
(* nor to the all-folders set: both hold only folders of objects that have *)
(* one, so no DIFF or TRANSFER is started for anything else.               *)
(***************************************************************************)
C10_FolderlessObjectsIgnored ==
    /\ Range(recentFoldersFound) \cup allFoldersFoundInTotal \cup Range(finalFolders)
          \subseteq {FolderOf(o) : o \in Foldered}

(***************************************************************************)
(* C11.  When the scan is over and the migration phase starts, every page  *)
(* of the source listing has been fetched and classified: the two folder   *)
(* sets are those of the whole listing, also when a page on the way was    *)
(* empty but carried a next-page token.                                    *)
(***************************************************************************)
C11_ScanCoversEveryPage ==
    ScanOver =>
        /\ allFoldersFoundInTotal = ClassifyAll(GetFiles(GCP_INTERNAL_PATH), {})
        /\ recentFoldersFound = ClassifyRecent(GetFiles(GCP_INTERNAL_PATH), <<>>)

(***************************************************************************)
(* C12.  Full-diff variant, run again after a run in which every listing,  *)
(* download and upload succeeded: the task list of every recent folder is  *)
(* empty, and the run issues no download and no upload.                    *)
(***************************************************************************)
C12_RerunAfterCleanRunIsNoOp ==
    (variant = "diff" /\ prior = "clean") =>
        /\ pc = "diffed" => filesToMigrate = <<>>
        /\ tasks = <<>>
        /\ r2 = r2AtStart

(***************************************************************************)
(* C13.  Full-diff variant, run again after a run that was stopped or had  *)
(* a failure: the tasks of a folder are exactly the source keys under its  *)
(* prefix that the destination lacks when the folder is diffed, and no key *)
(* the destination already held is downloaded or uploaded again.           *)
(***************************************************************************)
C13_ResumeTransfersOnlyMissing ==
    (variant = "diff" /\ prior = "stopped") =>
        /\ pc \in {"gcp_list", "diffed"} =>
              r2Files = DestKeysUnder(FolderPrefix(folderName))
        /\ pc = "diffed" =>
              /\ Range(filesToMigrate) =
                    SourceKeysUnder(FolderPrefix(folderName))
                        \ DestKeysUnder(FolderPrefix(folderName))
              /\ Len(filesToMigrate) = Cardinality(Range(filesToMigrate))
        /\ pc = "await_all" =>
              {tasks[t].key : t \in DOMAIN tasks} =
                  SourceKeysUnder(FolderPrefix(folderName)) \ r2Files
        /\ \A t \in DOMAIN tasks : tasks[t].key \notin r2AtStart

\* A stopped run left one key of folder a behind; the next run transfers
\* the rest of the folder and has uploaded it.
C13_Witness ==
    /\ variant = "diff"
    /\ prior = "stopped"
    /\ pc = "await_all"
    /\ r2AtStart \cap SourceKeysUnder(FolderPrefix(folderName)) # {}
    /\ r2AtStart \cap SourceKeysUnder(FolderPrefix(folderName)) = r2Files
    /\ \E t \in DOMAIN tasks : tasks[t].st = "uploaded"

(***************************************************************************)
(* C14.  Full-diff variant, a run that found the destination empty and in  *)
(* which no call failed: when it is done, for every folder f of the recent *)
(* set the destination keys under root + f + "/" are exactly the keys of   *)
(* the source objects whose folder name is f.                              *)
(***************************************************************************)
C14_DestinationMirrorsRecentFolders ==
    (variant = "diff" /\ pc = "done" /\ ~faulted /\ r2AtStart = {}) =>
        \A f \in Range(finalFolders) :
            DestKeysUnder(FolderPrefix(f)) =
                {o.name : o \in {g \in Range(GetFiles(GCP_INTERNAL_PATH)) :
                                    FolderNameOf(g.name) = f}}

(***************************************************************************)
(* C15.  Presence-check variant: a folder under whose prefix the           *)
(* destination holds at least one key is skipped whole - it is counted as  *)
(* migrated and the loop moves on with no source listing, download or      *)
(* upload for it; for any other folder every source object under the       *)
(* prefix becomes a transfer, and the folder is complete only when all of  *)
(* them are at the destination.                                            *)
(***************************************************************************)
C15_PresenceCheckDecides ==
    /\ [][(variant = "presence" /\ pc = "b_check" /\ pc' \notin {"failed", "scan"}) =>
            IF DestKeysUnder(FolderPrefix(folderName)) # {}
            THEN /\ folderIdx' = folderIdx + 1
                 /\ migratedFoldersCount' = migratedFoldersCount + 1
                 /\ pc' \in {"b_check", "done"}
                 /\ UNCHANGED <<r2, tasks, filesToMigrate, transferredCount>>
            ELSE /\ pc' = "b_list"
                 /\ UNCHANGED <<folderIdx, migratedFoldersCount, r2, tasks>>]_vars
    /\ [](variant = "presence" /\ pc = "b_loop" =>
            /\ Range(filesToMigrate) = SourceKeysUnder(FolderPrefix(folderName))
            /\ {tasks[t].key : t \in DOMAIN tasks} = Range(filesToMigrate)
            /\ Len(tasks) = Cardinality(Range(filesToMigrate)))
    /\ [][(variant = "presence" /\ pc \in {"b_list", "b_loop"}
              /\ folderIdx' = folderIdx + 1) =>
            /\ SourceKeysUnder(FolderPrefix(folderName)) \subseteq r2'
            /\ migratedFoldersCount' = migratedFoldersCount + 1]_vars

\* A first run is done: folder a, of which the destination held a key, was
\* skipped, and folder c, of which it held none, was transferred.
C15_Witness ==
    /\ variant = "presence"
    /\ prior = "none"
    /\ pc = "done"
    /\ migratedFoldersCount = 2
    /\ r2AtStart = DstPartial
    /\ Key(<<"a">>, <<"m">>) \notin r2
    /\ Key(<<"c">>, <<"m">>) \in r2 \ r2AtStart

(***************************************************************************)
(* C16.  Presence-check variant: a folder of which the destination already *)
(* holds an object when a run begins - such as a folder whose transfer an  *)
(* earlier run left unfinished - is not resumed: the run issues no         *)
(* download or upload for a key under its prefix and adds no key there, so *)
(* what is missing stays missing.                                          *)
(***************************************************************************)
C16_PartialFolderNeverResumed ==
    variant = "presence" =>
        \A f \in Range(finalFolders) :
            {j \in r2AtStart : startsWith(j, FolderPrefix(f))} # {} =>
                /\ \A t \in DOMAIN tasks : ~startsWith(tasks[t].key, FolderPrefix(f))
                /\ DestKeysUnder(FolderPrefix(f)) =
                      {j \in r2AtStart : startsWith(j, FolderPrefix(f))}

\* The run after a stopped one is done and has counted folder a, of which
\* the stopped run had written r/a/m only: r/a/x is still missing.
C16_Witness ==
    /\ variant = "presence"
    /\ prior = "stopped"
    /\ pc = "done"
    /\ <<"a">> \in Range(finalFolders)
    /\ migratedFoldersCount = Len(finalFolders)
    /\ Key(<<"a">>, <<"m">>) \in r2AtStart
    /\ Key(<<"a">>, <<"x">>) \in SourceKeysUnder(FolderPrefix(<<"a">>)) \ r2

(***************************************************************************)
(* C17.  A failed listing call (scan page, destination listing, presence   *)
(* check, folder source listing) is fatal and is not retried: the step     *)
(* that fails hands the error to the top-level handler and changes nothing *)
(* else, no task is left running, and from then on the run takes no step:  *)
(* no listing, download or upload, no further folder.                      *)
(***************************************************************************)
C17_ListErrorIsFatal ==
    /\ [](error = "ListError" =>
            /\ pc = "failed"
            /\ Unfinished = {}
            /\ queue = <<>>)
    /\ [][(error # "ListError" /\ error' = "ListError") =>
            /\ pc \in {"scan", "r2_recv", "gcp_list", "b_check", "b_list"}
            /\ UNCHANGED <<r2, scanVars, finalFolders, folderIdx, r2Files,
                           filesToMigrate, poolVars, migratedFoldersCount>>]_vars
    /\ [][error = "ListError" => (pc' = "scan" /\ error' = "none" /\ prior' = "stopped")]_vars

\* The first folder was transferred and counted; the listing for the second
\* failed, and the second folder stays unattempted.
C17_Witness ==
    /\ error = "ListError"
    /\ pc = "failed"
    /\ folderIdx = 2
    /\ Len(finalFolders) >= 2
    /\ migratedFoldersCount = 1
    /\ \E t \in DOMAIN tasks : tasks[t].st = "uploaded"
    /\ DestKeysUnder(FolderPrefix(finalFolders[2])) = {}

(***************************************************************************)
(* C18.  Full-diff variant: a download that delivers null or an empty      *)
(* buffer is treated exactly like a download that throws: the attempt      *)
(* counts as failed and is retried within the three attempts, and such a   *)
(* buffer is never uploaded.                                               *)
(***************************************************************************)
C18_NullOrEmptyBufferIsAFailure ==
    variant = "diff" =>
        \A t \in DOMAIN tasks :
            /\ tasks[t].downloads <= MaxAttempts
            /\ tasks[t].buf \in {"null", "empty"} =>
                  /\ ~tasks[t].downloadSuccess
                  /\ tasks[t].uploads = 0
                  /\ tasks[t].st \in {"downloading", "waiting", "skipped"}

(***************************************************************************)
(* C18, amended.  Full-diff variant: a download that delivers null is      *)
(* treated exactly like a download that throws - the attempt counts as     *)
(* failed, is retried within the three attempts, and null is never         *)
(* uploaded; a download that delivers an empty buffer is a success and the *)
(* object is uploaded, with an empty body.                                 *)
(***************************************************************************)
C18_NullBufferIsAFailure ==
    variant = "diff" =>
        \A t \in DOMAIN tasks :
            /\ tasks[t].downloads <= MaxAttempts
            /\ tasks[t].buf = "null" =>
                  /\ ~tasks[t].downloadSuccess
                  /\ tasks[t].uploads = 0
                  /\ tasks[t].st \in {"downloading", "waiting", "skipped"}
                  /\ tasks[t].st = "skipped" => tasks[t].downloads = MaxAttempts
            /\ tasks[t].buf = "empty" =>
                  /\ tasks[t].downloadSuccess
                  /\ tasks[t].uploads = 1
                  /\ tasks[t].st \in {"uploading", "uploaded", "failed"}
            /\ tasks[t].uploads > 0 => tasks[t].buf \in {"data", "empty"}

\* One task was given null and is in a further attempt; another was given an
\* empty buffer at once and has uploaded it.
C18_Witness ==
    /\ variant = "diff"
    /\ \E t \in DOMAIN tasks :
          /\ tasks[t].buf = "null"
          /\ tasks[t].st = "downloading"
          /\ tasks[t].downloads \in 1..(MaxAttempts - 1)
    /\ \E u \in DOMAIN tasks :
          /\ tasks[u].buf = "empty"
          /\ tasks[u].downloads = 1
          /\ tasks[u].st = "uploaded"
          /\ tasks[u].key \in r2

(***************************************************************************)
(* C19.  Presence-check variant: the failure of one object's download or   *)
(* upload is isolated - the top-level error handler never receives it, the *)
(* run does not abort, and the rest of the folder and the remaining        *)
(* folders are still transferred.                                          *)
(***************************************************************************)
C19_PresenceObjectFailureIsolated ==
    variant = "presence" =>
        /\ error \notin {"DownloadError", "UploadError"}
        /\ (\E t \in DOMAIN tasks : tasks[t].st = "failed") => pc # "failed"

(***************************************************************************)
(* C20.  A run is one pass SCAN, CLASSIFY, per-folder DIFF and TRANSFER,   *)
(* DONE.  While the scan lasts nothing else has been called: no            *)
(* destination listing, no folder listing, no task, destination untouched. *)
(* Once the scan is left it is not entered again in that run (only a new   *)
(* process scans again), and the folder sets and the folder position never *)
(* go back.  A scan that ends with an empty recent set goes straight to    *)
(* DONE, without error and without any destination listing, download or    *)
(* upload, and DONE is final.                                              *)
(***************************************************************************)
C20_OnePassStateMachine ==
    /\ [](pc = "scan" =>
            /\ finalFolders = <<>>
            /\ folderIdx = 0
            /\ r2Files = {}
            /\ r2ContinuationToken = NoToken
            /\ filesToMigrate = <<>>
            /\ tasks = <<>>
            /\ queue = <<>>
            /\ activeCount = 0
            /\ migratedFoldersCount = 0
            /\ r2 = r2AtStart)
    /\ [][(pc # "scan" /\ pc' = "scan") => (Fresh' /\ r2AtStart' = r2)]_vars
    /\ [][(pc # "scan" /\ pc' # "scan") =>
            /\ UNCHANGED <<scanVars, finalFolders>>
            /\ folderIdx' >= folderIdx]_vars
    /\ [][(pc = "scan" /\ pc' \notin {"scan", "failed"} /\ recentFoldersFound' = <<>>) =>
            /\ pc' = "done"
            /\ error' = "none"
            /\ faulted' = FALSE
            /\ UNCHANGED <<r2, r2Files, r2ContinuationToken, filesToMigrate,
                           poolVars, migratedFoldersCount>>]_vars
    /\ [](pc = "done" /\ finalFolders = <<>> =>
            /\ error = "none"
            /\ tasks = <<>>
            /\ r2Files = {}
            /\ r2 = r2AtStart
            /\ migratedFoldersCount = 0)
    /\ [][pc = "done" => pc' = "scan"]_vars

\* A scan of a bucket that holds a folder, but no recent one, has ended the
\* run at DONE.
C20_Witness ==
    /\ pc = "done"
    /\ error = "none"
    /\ finalFolders = <<>>
    /\ allFoldersFoundInTotal # {}
    /\ gcs = SrcOldFolder
    /\ tasks = <<>>

(***************************************************************************)
(* C21.  The progress counters under every interleaving of the tasks:      *)
(* transferredCount always equals the number of the folder's tasks whose   *)
(* upload has succeeded (one increment per successful upload, none lost),  *)
(* it never exceeds totalFilesToTransfer, and migratedFoldersCount never   *)
(* exceeds totalFoldersToMigrate; neither counter ever decreases -         *)
(* transferredCount starts again at zero only as the new counter of the    *)
(* next folder's transfer, both only in a new process.                     *)
(***************************************************************************)
C21_CountersAreSafe ==
    /\ [](/\ transferredCount =
                Cardinality({t \in DOMAIN tasks : tasks[t].st = "uploaded"})
          /\ transferredCount <= Len(tasks)
          /\ pc \in {"await_all", "b_loop"} =>
                /\ Len(tasks) = Len(filesToMigrate)
                /\ transferredCount <= Len(filesToMigrate)
          /\ migratedFoldersCount <= Len(finalFolders))
    /\ [][\/ migratedFoldersCount' = migratedFoldersCount
          \/ migratedFoldersCount' = migratedFoldersCount + 1
          \/ Fresh']_vars
    /\ [][\/ transferredCount' = transferredCount
          \/ /\ transferredCount' = transferredCount + 1
             /\ \E t \in DOMAIN tasks :
                   /\ tasks[t].st = "uploading"
                   /\ tasks'[t].st = "uploaded"
                   /\ tasks[t].key \in r2'
          \/ /\ transferredCount' = 0
             /\ pc \in {"diffed", "b_list"}
             /\ pc' \in {"await_all", "b_loop"}
          \/ Fresh']_vars

\* The pool of a folder of nine has drained: eight uploads and one skip.
C21_Witness ==
    /\ variant = "diff"
    /\ pc = "await_all"
    /\ Len(tasks) = 9
    /\ Unfinished = {}
    /\ transferredCount = 8
    /\ \E t \in DOMAIN tasks : tasks[t].st = "skipped"

(***************************************************************************)
(* C22.  Full-diff variant: every folder that has been reported complete   *)
(* and counted in migratedFoldersCount (the folders are taken in order, so *)
(* these are the first migratedFoldersCount of finalFolders) has all the   *)
(* source keys under its prefix at the destination.                        *)
(***************************************************************************)
C22_ReportedFolderIsInSync ==
    (variant = "diff" /\ ScanOver) =>
        \A i \in 1..migratedFoldersCount :
            SourceKeysUnder(FolderPrefix(finalFolders[i])) \subseteq r2

(***************************************************************************)
(* C23.  In both variants, over runs and re-runs, no step removes a key    *)
(* from the destination; a step adds at most one key, and that key is the  *)
(* key of a source object listed under the prefix of a folder of the       *)
(* recent set; the destination keys that have no source counterpart are    *)
(* the same before and after every step; the source bucket never changes.  *)
(***************************************************************************)
C23_DestinationOnlyGrows ==
    /\ [][/\ r2 \subseteq r2'
          /\ Cardinality(r2' \ r2) <= 1
          /\ r2' \ r2 \subseteq
                UNION {SourceKeysUnder(FolderPrefix(f)) : f \in Range(finalFolders)}
          /\ r2' \ Names(gcs) = r2 \ Names(gcs)
          /\ gcs' = gcs]_vars
    /\ [](/\ r2AtStart \subseteq r2
          /\ r2 \ r2AtStart \subseteq
                UNION {SourceKeysUnder(FolderPrefix(f)) : f \in Range(finalFolders)})

\* A re-run is done on a destination that held a key without source
\* counterpart: that key is still there, and the run has added source keys.
C23_Witness ==
    /\ prior # "none"
    /\ pc = "done"
    /\ Key(<<"a", "/", "z">>, <<"m">>) \in r2AtStart \ Names(gcs)
    /\ Key(<<"a", "/", "z">>, <<"m">>) \in r2
    /\ r2 \ r2AtStart # {}
    /\ r2 \ r2AtStart \subseteq Names(gcs)

====
